---- MODULE Spec2Model ----
(***************************************************************************)
(* Event wiring of the Gradio UI: acestep/ui/gradio/events/__init__.py.    *)
(*                                                                         *)
(* setup_event_handlers and setup_training_event_handlers are straight     *)
(* line programs; each statement is one action.  The registration helpers  *)
(* of the wiring package, gen_h.load_metadata and                          *)
(* gen_h.uncheck_auto_for_populated_fields live in other modules; they are *)
(* modelled by what the specification says of them.  After a setup call    *)
(* has returned, UI events (file upload, button click) run the chains that *)
(* the setup registered.                                                   *)
(***************************************************************************)
EXTENDS Integers, Sequences, FiniteSets, TLC

VARIABLES
    handlers,               \* state of the objects passed as dit_handler, llm_handler, dataset_handler
    generation_section,     \* keys present in the generation component map
    results_section,        \* keys present in the results component map
    training_section,       \* keys present in the training component map
    frame,                  \* function being executed: "none", a setup function, or "crashed"
    pc,                     \* index of the next statement of the running function
    ret,                    \* per setup function: "not_called", "running", its return value or its exception
    raised_at,              \* statement that raised, "None" when nothing raised
    wiring_context,         \* local of setup_event_handlers
    auto_checkbox_inputs,   \* local of setup_event_handlers
    auto_checkbox_outputs,  \* local of setup_event_handlers
    mode_ui_outputs,        \* local of setup_event_handlers
    training_context,       \* local of setup_training_event_handlers
    calls,                  \* registration invocations made so far, in order
    event_graph,            \* the bindings registered on the UI, in order
    value,                  \* current value of every UI component
    queue,                  \* chains started by the event being dispatched
    prev_value,             \* value of every UI component before the last chain step
    evlog,                  \* chain steps executed so far
    nevents                 \* number of UI events fired

vars == <<handlers, generation_section, results_section, training_section,
          frame, pc, ret, raised_at, wiring_context, auto_checkbox_inputs,
          auto_checkbox_outputs, mode_ui_outputs, training_context, calls,
          event_graph, value, prev_value, queue, evlog, nevents>>

setup_vars == <<frame, pc, ret, raised_at, wiring_context, auto_checkbox_inputs,
                auto_checkbox_outputs, mode_ui_outputs, training_context, calls,
                event_graph>>

(***************************************************************************)
(* Bounds of the model.                                                    *)
(***************************************************************************)
\* longest auto-checkbox input list the service registration returns
MaxAuto == 2
\* most derived metadata outputs appended to the auto toggles
MaxDerived == 1
\* UI events fired after setup
MaxEvents == 2

(***************************************************************************)
(* Values.                                                                 *)
(***************************************************************************)
None == "None"
KeyError == "KeyError"
UnboundLocalError == "UnboundLocalError"
\* a local that has not been assigned, and an absent list argument
Unbound == <<>>

Files == {"a.json", "b.json"}
HandlerStates == {"initialized", "uninitialized"}

RECURSIVE SeqToSet(_)
SeqToSet(s) == IF s = <<>> THEN {} ELSE {Head(s)} \cup SeqToSet(Tail(s))

IsInjective(s) == \A i, j \in 1..Len(s) : s[i] = s[j] => i = j

(***************************************************************************)
(* Component maps.                                                         *)
(***************************************************************************)
\* generation_section keys written by the load step, in the order of the outputs list
LoadOutputKeys_swapped ==
    << "task_type", "lyrics", "captions", "vocal_language", "bpm", "key_scale",
       "time_signature", "audio_duration", "batch_size_input", "inference_steps",
       "guidance_scale", "seed", "random_seed_checkbox", "use_adg",
       "cfg_interval_start", "cfg_interval_end", "shift", "infer_method",
       "custom_timesteps", "audio_format", "lm_temperature", "lm_cfg_scale",
       "lm_top_k", "lm_top_p", "lm_negative_prompt", "use_cot_metas",
       "use_cot_caption", "use_cot_language", "audio_cover_strength",
       "cover_noise_strength", "think_checkbox", "text2music_audio_code_string",
       "repainting_start", "repainting_end", "track_name",
       "complete_track_classes", "instrumental_checkbox" >>

LoadOutputKeys ==
    << "task_type", "captions", "lyrics", "vocal_language", "bpm", "key_scale",
       "time_signature", "audio_duration", "batch_size_input", "inference_steps",
       "guidance_scale", "seed", "random_seed_checkbox", "use_adg",
       "cfg_interval_start", "cfg_interval_end", "shift", "infer_method",
       "custom_timesteps", "audio_format", "lm_temperature", "lm_cfg_scale",
       "lm_top_k", "lm_top_p", "lm_negative_prompt", "use_cot_metas",
       "use_cot_caption", "use_cot_language", "audio_cover_strength",
       "cover_noise_strength", "think_checkbox", "text2music_audio_code_string",
       "repainting_start", "repainting_end", "track_name",
       "complete_track_classes", "instrumental_checkbox" >>

\* metadata fields that have an auto checkbox, and the checkbox of each
MetadataFields == << "bpm", "key_scale", "time_signature", "vocal_language", "audio_duration" >>
AutoToggleOf == [ bpm |-> "bpm_auto", key_scale |-> "key_auto", time_signature |-> "timesig_auto",
                  vocal_language |-> "vocal_lang_auto", audio_duration |-> "duration_auto" ]
AutoToggles == { AutoToggleOf[MetadataFields[i]] : i \in 1..Len(MetadataFields) }

GenerationKeys == {"load_file"} \cup SeqToSet(LoadOutputKeys) \cup AutoToggles
ResultsKeys == {"is_format_caption_state"}
TrainingKeys == { "load_json_btn", "load_json_path", "load_json_status",
                  "load_existing_dataset_btn", "load_existing_dataset_path",
                  "load_existing_status" }
Components == GenerationKeys \cup ResultsKeys \cup TrainingKeys

\* section[key] of a Python dict: the component, or KeyError
Lookup_get(section, key) == IF key \in section THEN key ELSE None

Lookup(section, key) == IF key \in section THEN key ELSE KeyError

(***************************************************************************)
(* Wiring contexts.                                                        *)
(***************************************************************************)
NoContext ==
    [ kind |-> None, demo |-> None, dit_handler |-> None, llm_handler |-> None,
      dataset_handler |-> None, dataset_section |-> None, generation_section |-> {},
      results_section |-> {}, training_section |-> {} ]

\* GenerationWiringContext(demo=..., ..., results_section=...)
GenerationWiringContext(demo, dit, llm, dataset, dsec, gsec, rsec) ==
    [ kind |-> "GenerationWiringContext", demo |-> demo, dit_handler |-> dit,
      llm_handler |-> llm, dataset_handler |-> dataset, dataset_section |-> dsec,
      generation_section |-> gsec, results_section |-> rsec, training_section |-> {} ]

\* TrainingWiringContext(demo=..., ..., training_section=...)
TrainingWiringContext(demo, dit, llm, tsec) ==
    [ kind |-> "TrainingWiringContext", demo |-> demo, dit_handler |-> dit,
      llm_handler |-> llm, dataset_handler |-> None, dataset_section |-> None,
      generation_section |-> {}, results_section |-> {}, training_section |-> tsec ]

\* a registration helper reads components of the maps of its context; which ones
\* is not known here, so it can fail whenever a map lacks a key
LacksKey(ctx) ==
    \/ ctx.kind = "GenerationWiringContext"
       /\ (ctx.generation_section # GenerationKeys \/ ctx.results_section # ResultsKeys)
    \/ ctx.kind = "TrainingWiringContext" /\ ctx.training_section # TrainingKeys

(***************************************************************************)
(* The two setup functions as statement lists.                             *)
(***************************************************************************)
NoKeys == [ button_key |-> None, path_key |-> None, status_key |-> None ]

GenerationProgram_reordered ==
    << "GenerationWiringContext",
       "build_mode_ui_outputs",
       "register_generation_metadata_handlers",
       "register_generation_service_handlers",
       "register_generation_mode_handlers",
       "load_file.upload",
       "register_results_save_button_handlers",
       "register_results_aux_handlers",
       "register_generation_run_handlers",
       "register_generation_batch_navigation_handlers",
       "register_results_restore_and_lrc_handlers" >>

GenerationProgram_duplicated ==
    << "GenerationWiringContext",
       "register_generation_service_handlers",
       "build_mode_ui_outputs",
       "register_generation_metadata_handlers",
       "register_generation_mode_handlers",
       "load_file.upload",
       "register_results_save_button_handlers",
       "register_results_aux_handlers",
       "register_generation_run_handlers",
       "register_generation_run_handlers",
       "register_generation_batch_navigation_handlers",
       "register_results_restore_and_lrc_handlers" >>

GenerationProgram_chain_last ==
    << "GenerationWiringContext",
       "register_generation_service_handlers",
       "build_mode_ui_outputs",
       "register_generation_metadata_handlers",
       "register_generation_mode_handlers",
       "register_results_save_button_handlers",
       "load_file.upload",
       "register_results_aux_handlers",
       "register_generation_run_handlers",
       "register_generation_batch_navigation_handlers",
       "register_results_restore_and_lrc_handlers" >>

\* the statements of setup_event_handlers
GenerationProgram ==
    << "GenerationWiringContext",
       "register_generation_service_handlers",
       "build_mode_ui_outputs",
       "register_generation_metadata_handlers",
       "register_generation_mode_handlers",
       "load_file.upload",
       "register_results_save_button_handlers",
       "register_results_aux_handlers",
       "register_generation_run_handlers",
       "register_generation_batch_navigation_handlers",
       "register_results_restore_and_lrc_handlers" >>

TrainingProgram_same_keys ==
    << [ fn |-> "TrainingWiringContext" ] @@ NoKeys,
       [ fn |-> "register_training_dataset_load_handler", button_key |-> "load_json_btn",
         path_key |-> "load_json_path", status_key |-> "load_json_status" ],
       [ fn |-> "register_training_dataset_builder_handlers" ] @@ NoKeys,
       [ fn |-> "register_training_dataset_load_handler", button_key |-> "load_json_btn",
         path_key |-> "load_json_path", status_key |-> "load_json_status" ],
       [ fn |-> "register_training_preprocess_handler" ] @@ NoKeys,
       [ fn |-> "register_training_run_handlers" ] @@ NoKeys >>

TrainingProgram_preprocess_first ==
    << [ fn |-> "TrainingWiringContext" ] @@ NoKeys,
       [ fn |-> "register_training_dataset_load_handler", button_key |-> "load_json_btn",
         path_key |-> "load_json_path", status_key |-> "load_json_status" ],
       [ fn |-> "register_training_dataset_builder_handlers" ] @@ NoKeys,
       [ fn |-> "register_training_preprocess_handler" ] @@ NoKeys,
       [ fn |-> "register_training_dataset_load_handler", button_key |-> "load_existing_dataset_btn",
         path_key |-> "load_existing_dataset_path", status_key |-> "load_existing_status" ],
       [ fn |-> "register_training_run_handlers" ] @@ NoKeys >>

\* the statements of setup_training_event_handlers, with the keys they pass
TrainingProgram ==
    << [ fn |-> "TrainingWiringContext" ] @@ NoKeys,
       [ fn |-> "register_training_dataset_load_handler", button_key |-> "load_json_btn",
         path_key |-> "load_json_path", status_key |-> "load_json_status" ],
       [ fn |-> "register_training_dataset_builder_handlers" ] @@ NoKeys,
       [ fn |-> "register_training_dataset_load_handler", button_key |-> "load_existing_dataset_btn",
         path_key |-> "load_existing_dataset_path", status_key |-> "load_existing_status" ],
       [ fn |-> "register_training_preprocess_handler" ] @@ NoKeys,
       [ fn |-> "register_training_run_handlers" ] @@ NoKeys >>

Program(f) == IF f = "setup_event_handlers"
              THEN GenerationProgram
              ELSE [ i \in 1..Len(TrainingProgram) |-> TrainingProgram[i].fn ]

\* a setup function falls off its end
SetupReturn_context == "wiring_context"

SetupReturn == None

(***************************************************************************)
(* Registration records.                                                   *)
(***************************************************************************)
NoResult == << Unbound, Unbound >>

\* one completed invocation: the helper, the context and keyword arguments it
\* received, and the lists it returned
CallEntry(fn, ctx, kw, keys, result) ==
    [ fn |-> fn, ctx |-> ctx,
      auto_checkbox_inputs |-> kw.auto_checkbox_inputs,
      auto_checkbox_outputs |-> kw.auto_checkbox_outputs,
      mode_ui_outputs |-> kw.mode_ui_outputs,
      button_key |-> keys.button_key, path_key |-> keys.path_key,
      status_key |-> keys.status_key, result |-> result ]

NoKw == [ auto_checkbox_inputs |-> Unbound, auto_checkbox_outputs |-> Unbound,
          mode_ui_outputs |-> Unbound ]

\* one step of an event chain: fn(*inputs) -> outputs
Step(fn, closure, inputs, outputs) ==
    [ fn |-> fn, closure |-> closure, inputs |-> inputs, outputs |-> outputs ]

\* one binding of the event graph
Binding(owner, trigger, event, steps) ==
    [ owner |-> owner, trigger |-> trigger, event |-> event, steps |-> steps ]

\* the bindings a registration helper attaches, of which nothing is known here
OpaqueBinding(fn) == Binding(fn, None, None, << >>)

(***************************************************************************)
(* Helpers of the wiring package.                                          *)
(***************************************************************************)
\* register_generation_service_handlers returns (auto_checkbox_inputs,
\* auto_checkbox_outputs): ordered metadata fields, and the ordered auto
\* toggles plus derived metadata outputs
ServiceReturn(n, m) ==
    << SubSeq(MetadataFields, 1, n),
       [ i \in 1..n |-> AutoToggleOf[MetadataFields[i]] ] \o SubSeq(MetadataFields, 1, m) >>

\* build_mode_ui_outputs returns the ordered mode-UI outputs
ModeUiOutputs == << "track_name", "complete_track_classes", "repainting_start", "repainting_end" >>

(***************************************************************************)
(* Control.                                                                *)
(***************************************************************************)
At(f, stmt) == /\ frame = f
               /\ pc \in 1..Len(Program(f))
               /\ Program(f)[pc] = stmt

\* the statement is done: go to the next one, or return after the last
Advance ==
    IF pc = Len(Program(frame))
    THEN /\ frame' = "none"
         /\ pc' = 0
         /\ ret' = [ret EXCEPT ![frame] = SetupReturn]
         /\ UNCHANGED raised_at
    ELSE /\ pc' = pc + 1
         /\ UNCHANGED <<frame, ret, raised_at>>

\* nothing catches an exception: the setup call ends with it
Raise(exc) ==
    /\ frame' = "crashed"
    /\ pc' = pc
    /\ ret' = [ret EXCEPT ![frame] = exc]
    /\ raised_at' = Program(frame)[pc]

\* a call of a registration helper: it registers its bindings and returns, or,
\* when a component map of its context lacks a key, it can raise KeyError
Register(fn, ctx, kw, keys, result, returnedKeys, section) ==
    \/ /\ returnedKeys \subseteq section
       /\ calls' = Append(calls, CallEntry(fn, ctx, kw, keys, result))
       /\ event_graph' = IF fn = "build_mode_ui_outputs"
                         THEN event_graph
                         ELSE Append(event_graph, OpaqueBinding(fn))
       /\ Advance
    \/ /\ LacksKey(ctx)
       /\ Raise(KeyError)
       /\ UNCHANGED <<calls, event_graph>>

UI == <<value, prev_value, queue, evlog, nevents>>
Args == <<handlers, generation_section, results_section, training_section>>

(***************************************************************************)
(* setup_event_handlers                                                    *)
(***************************************************************************)
Call_setup_event_handlers ==
    /\ frame = "none"
    /\ queue = << >>
    /\ ret["setup_event_handlers"] = "not_called"
    /\ frame' = "setup_event_handlers"
    /\ pc' = 1
    /\ ret' = [ret EXCEPT !["setup_event_handlers"] = "running"]
    /\ wiring_context' = NoContext
    /\ auto_checkbox_inputs' = Unbound
    /\ auto_checkbox_outputs' = Unbound
    /\ mode_ui_outputs' = Unbound
    /\ UNCHANGED <<raised_at, training_context, calls, event_graph, UI, Args>>

Stmt_GenerationWiringContext ==
    /\ At("setup_event_handlers", "GenerationWiringContext")
    /\ wiring_context' = GenerationWiringContext("demo", "dit_handler", "llm_handler",
                             "dataset_handler", "dataset_section",
                             generation_section, results_section)
    /\ Advance
    /\ UNCHANGED <<auto_checkbox_inputs, auto_checkbox_outputs, mode_ui_outputs,
                   training_context, calls, event_graph, UI, Args>>

Stmt_register_generation_service_handlers ==
    /\ At("setup_event_handlers", "register_generation_service_handlers")
    /\ IF wiring_context = NoContext
       THEN /\ Raise(UnboundLocalError)
            /\ UNCHANGED <<auto_checkbox_inputs, auto_checkbox_outputs, calls, event_graph>>
       ELSE \E n \in 1..MaxAuto : \E m \in 0..MaxDerived :
              /\ n <= Len(MetadataFields)
              /\ m <= n
              /\ LET r == ServiceReturn(n, m) IN
                 /\ Register("register_generation_service_handlers", wiring_context,
                             NoKw, NoKeys, r, SeqToSet(r[1]) \cup SeqToSet(r[2]),
                             wiring_context.generation_section)
                 /\ IF frame' = "crashed"
                    THEN UNCHANGED <<auto_checkbox_inputs, auto_checkbox_outputs>>
                    ELSE /\ auto_checkbox_inputs' = r[1]
                         /\ auto_checkbox_outputs' = r[2]
    /\ UNCHANGED <<wiring_context, mode_ui_outputs, training_context, UI, Args>>

Stmt_build_mode_ui_outputs ==
    /\ At("setup_event_handlers", "build_mode_ui_outputs")
    /\ IF wiring_context = NoContext
       THEN /\ Raise(UnboundLocalError)
            /\ UNCHANGED <<mode_ui_outputs, calls, event_graph>>
       ELSE /\ Register("build_mode_ui_outputs", wiring_context, NoKw, NoKeys,
                        << ModeUiOutputs, Unbound >>, SeqToSet(ModeUiOutputs),
                        wiring_context.generation_section)
            /\ IF frame' = "crashed"
               THEN UNCHANGED mode_ui_outputs
               ELSE mode_ui_outputs' = ModeUiOutputs
    /\ UNCHANGED <<wiring_context, auto_checkbox_inputs, auto_checkbox_outputs,
                   training_context, UI, Args>>

\* keyword arguments of the register_generation_metadata_handlers call
MetadataKwargs ==
    [ auto_checkbox_inputs |-> auto_checkbox_inputs,
      auto_checkbox_outputs |-> auto_checkbox_outputs,
      mode_ui_outputs |-> Unbound ]

ModeKwargs_swapped ==
    [ auto_checkbox_inputs |-> auto_checkbox_outputs,
      auto_checkbox_outputs |-> auto_checkbox_inputs,
      mode_ui_outputs |-> mode_ui_outputs ]

\* keyword arguments of the register_generation_mode_handlers call
ModeKwargs ==
    [ auto_checkbox_inputs |-> auto_checkbox_inputs,
      auto_checkbox_outputs |-> auto_checkbox_outputs,
      mode_ui_outputs |-> mode_ui_outputs ]

\* keyword arguments of the register_results_aux_handlers call
AuxKwargs ==
    [ auto_checkbox_inputs |-> Unbound,
      auto_checkbox_outputs |-> Unbound,
      mode_ui_outputs |-> mode_ui_outputs ]

\* a call that passes only the context
ContextOnly(fn) ==
    /\ At("setup_event_handlers", fn)
    /\ IF wiring_context = NoContext
       THEN /\ Raise(UnboundLocalError)
            /\ UNCHANGED <<calls, event_graph>>
       ELSE Register(fn, wiring_context, NoKw, NoKeys, NoResult, {},
                     wiring_context.generation_section)
    /\ UNCHANGED <<wiring_context, auto_checkbox_inputs, auto_checkbox_outputs,
                   mode_ui_outputs, training_context, UI, Args>>

\* a call that passes the context and lists made by earlier statements
WithLists(fn, kw, read) ==
    /\ At("setup_event_handlers", fn)
    /\ IF wiring_context = NoContext \/ Unbound \in read
       THEN /\ Raise(UnboundLocalError)
            /\ UNCHANGED <<calls, event_graph>>
       ELSE Register(fn, wiring_context, kw, NoKeys, NoResult, {},
                     wiring_context.generation_section)
    /\ UNCHANGED <<wiring_context, auto_checkbox_inputs, auto_checkbox_outputs,
                   mode_ui_outputs, training_context, UI, Args>>

Stmt_register_generation_metadata_handlers ==
    WithLists("register_generation_metadata_handlers", MetadataKwargs,
              {auto_checkbox_inputs, auto_checkbox_outputs})

Stmt_register_generation_mode_handlers ==
    WithLists("register_generation_mode_handlers", ModeKwargs,
              {mode_ui_outputs, auto_checkbox_inputs, auto_checkbox_outputs})

Stmt_register_results_save_button_handlers ==
    ContextOnly("register_results_save_button_handlers")

Stmt_register_results_aux_handlers ==
    WithLists("register_results_aux_handlers", AuxKwargs, {mode_ui_outputs})

Stmt_register_generation_run_handlers ==
    ContextOnly("register_generation_run_handlers")

Stmt_register_generation_batch_navigation_handlers ==
    ContextOnly("register_generation_batch_navigation_handlers")

Stmt_register_results_restore_and_lrc_handlers ==
    ContextOnly("register_results_restore_and_lrc_handlers")

(***************************************************************************)
(* The inline load_file chain.                                             *)
(***************************************************************************)
\* the subscripts evaluated by the statement, in evaluation order
InlineReads ==
    << <<"generation_section", "load_file">>, <<"generation_section", "load_file">> >>
    \o [ i \in 1..Len(LoadOutputKeys) |-> <<"generation_section", LoadOutputKeys[i]>> ]
    \o << <<"results_section", "is_format_caption_state">> >>

SectionOf(name) == IF name = "generation_section" THEN generation_section ELSE results_section

InlineLookups == [ i \in 1..Len(InlineReads) |-> Lookup(SectionOf(InlineReads[i][1]), InlineReads[i][2]) ]

\* inputs=[generation_section["load_file"]]
LoadInputs == << InlineLookups[2] >>

\* outputs=[generation_section["task_type"], ..., results_section["is_format_caption_state"]]
LoadOutputs == SubSeq(InlineLookups, 3, Len(InlineLookups))

\* .upload(fn=lambda file_obj: gen_h.load_metadata(file_obj, llm_handler), inputs, outputs)
LoadStep ==
    Step("load_metadata", "llm_handler", LoadInputs, LoadOutputs)

\* .then(fn=gen_h.uncheck_auto_for_populated_fields, inputs=auto_checkbox_inputs,
\*       outputs=auto_checkbox_outputs)
ThenStep ==
    Step("uncheck_auto_for_populated_fields", None, auto_checkbox_inputs, auto_checkbox_outputs)

LoadFileChain_then_first == << ThenStep, LoadStep >>

\* the steps of the binding, in chain order
LoadFileChain == << LoadStep, ThenStep >>

ThenKwargs ==
    [ auto_checkbox_inputs |-> ThenStep.inputs,
      auto_checkbox_outputs |-> ThenStep.outputs,
      mode_ui_outputs |-> Unbound ]

Stmt_load_file_upload ==
    /\ At("setup_event_handlers", "load_file.upload")
    /\ IF KeyError \in SeqToSet(InlineLookups)
       THEN /\ Raise(KeyError)
            /\ UNCHANGED <<calls, event_graph>>
       ELSE IF Unbound \in {auto_checkbox_inputs, auto_checkbox_outputs}
       THEN \* .upload(...) has made its binding when .then(...) reads the locals
            /\ Raise(UnboundLocalError)
            /\ event_graph' = Append(event_graph,
                   Binding("setup_event_handlers", InlineLookups[1], "upload", << LoadStep >>))
            /\ UNCHANGED calls
       ELSE /\ event_graph' = Append(event_graph,
                   Binding("setup_event_handlers", InlineLookups[1], "upload", LoadFileChain))
            /\ calls' = Append(calls, CallEntry("load_file.upload", NoContext, ThenKwargs,
                                                NoKeys, NoResult))
            /\ Advance
    /\ UNCHANGED <<wiring_context, auto_checkbox_inputs, auto_checkbox_outputs,
                   mode_ui_outputs, training_context, UI, Args>>

(***************************************************************************)
(* setup_training_event_handlers                                           *)
(***************************************************************************)
Call_setup_training_event_handlers ==
    /\ frame = "none"
    /\ queue = << >>
    /\ ret["setup_training_event_handlers"] = "not_called"
    /\ frame' = "setup_training_event_handlers"
    /\ pc' = 1
    /\ ret' = [ret EXCEPT !["setup_training_event_handlers"] = "running"]
    /\ training_context' = NoContext
    /\ UNCHANGED <<raised_at, wiring_context, auto_checkbox_inputs, auto_checkbox_outputs,
                   mode_ui_outputs, calls, event_graph, UI, Args>>

Stmt_TrainingWiringContext ==
    /\ At("setup_training_event_handlers", "TrainingWiringContext")
    /\ training_context' = TrainingWiringContext("demo", "dit_handler", "llm_handler",
                                                 training_section)
    /\ Advance
    /\ UNCHANGED <<wiring_context, auto_checkbox_inputs, auto_checkbox_outputs,
                   mode_ui_outputs, calls, event_graph, UI, Args>>

\* the key arguments of the statement being executed
KeysAt(i) == [ button_key |-> TrainingProgram[i].button_key,
               path_key |-> TrainingProgram[i].path_key,
               status_key |-> TrainingProgram[i].status_key ]

\* register_training_dataset_load_handler binds the click of the button to the
\* dataset load, reading the path component and writing the status component
DatasetLoadBinding(ctx, keys) ==
    Binding("register_training_dataset_load_handler",
            Lookup(ctx.training_section, keys.button_key), "click",
            << Step("load_existing_dataset_for_preprocess", None,
                    << Lookup(ctx.training_section, keys.path_key) >>,
                    << Lookup(ctx.training_section, keys.status_key) >>) >>)

Stmt_register_training_dataset_load_handler ==
    /\ At("setup_training_event_handlers", "register_training_dataset_load_handler")
    /\ IF training_context = NoContext
       THEN /\ Raise(UnboundLocalError)
            /\ UNCHANGED <<calls, event_graph>>
       ELSE LET keys == KeysAt(pc)
                b == DatasetLoadBinding(training_context, keys)
            IN  \/ /\ KeyError \notin {b.trigger, b.steps[1].inputs[1], b.steps[1].outputs[1]}
                   /\ calls' = Append(calls, CallEntry("register_training_dataset_load_handler",
                                                       training_context, NoKw, keys, NoResult))
                   /\ event_graph' = Append(event_graph, b)
                   /\ Advance
                \/ /\ LacksKey(training_context)
                   /\ Raise(KeyError)
                   /\ UNCHANGED <<calls, event_graph>>
    /\ UNCHANGED <<wiring_context, auto_checkbox_inputs, auto_checkbox_outputs,
                   mode_ui_outputs, training_context, UI, Args>>

TrainingContextOnly(fn) ==
    /\ At("setup_training_event_handlers", fn)
    /\ IF training_context = NoContext
       THEN /\ Raise(UnboundLocalError)
            /\ UNCHANGED <<calls, event_graph>>
       ELSE Register(fn, training_context, NoKw, NoKeys, NoResult, {},
                     training_context.training_section)
    /\ UNCHANGED <<wiring_context, auto_checkbox_inputs, auto_checkbox_outputs,
                   mode_ui_outputs, training_context, UI, Args>>

Stmt_register_training_dataset_builder_handlers ==
    TrainingContextOnly("register_training_dataset_builder_handlers")

Stmt_register_training_preprocess_handler ==
    TrainingContextOnly("register_training_preprocess_handler")

Stmt_register_training_run_handlers ==
    TrainingContextOnly("register_training_run_handlers")

(***************************************************************************)
(* UI events, dispatched one at a time.                                    *)
(***************************************************************************)
Val(src, file, ev, by, idx) == [ src |-> src, file |-> file, ev |-> ev, by |-> by, idx |-> idx ]

\* setup function f has returned and nothing is running
Returned(f) == frame = "none" /\ ret[f] \notin {"not_called", "running"}

\* bindings of the event graph that an event on a component starts, in order
Triggered(trigger, event) ==
    LET idx == [ i \in 1..Len(event_graph) |-> i ]
        hit(i) == event_graph[i].trigger = trigger /\ event_graph[i].event = event
    IN  [ k \in 1..Len(SelectSeq(idx, hit)) |->
            [ binding |-> SelectSeq(idx, hit)[k], step |-> 1, ev |-> nevents + 1 ] ]

\* the user uploads a file into load_file
Upload(f) ==
    /\ Returned("setup_event_handlers")
    /\ queue = << >>
    /\ nevents < MaxEvents
    /\ "load_file" \in generation_section
    /\ nevents' = nevents + 1
    /\ value' = [value EXCEPT !["load_file"] = Val("upload", f, nevents + 1, None, 0)]
    /\ queue' = Triggered("load_file", "upload")
    /\ UNCHANGED <<prev_value, evlog, setup_vars, Args>>

\* the user clicks a button of the training tab
Click(btn) ==
    /\ Returned("setup_training_event_handlers")
    /\ queue = << >>
    /\ nevents < MaxEvents
    /\ btn \in training_section
    /\ nevents' = nevents + 1
    /\ queue' = Triggered(btn, "click")
    /\ UNCHANGED <<value, prev_value, evlog, setup_vars, Args>>

\* position of the last occurrence of component c in a list of outputs
LastIndex(outputs, c) == CHOOSE i \in 1..Len(outputs) :
                            /\ outputs[i] = c
                            /\ \A j \in 1..Len(outputs) : outputs[j] = c => j <= i

\* gen_h.load_metadata(file_obj, llm_handler) returns one value per output, in
\* order; the UI writes value i to output i
AfterLoadMetadata(st, ev) ==
    LET file_obj == value[st.inputs[1]] IN
    [ c \in Components |->
        IF c \in SeqToSet(st.outputs)
        THEN Val("load_metadata", file_obj.file, ev, st.closure, LastIndex(st.outputs, c))
        ELSE value[c] ]

\* gen_h.uncheck_auto_for_populated_fields(*inputs) returns one update per output
AfterUncheckAuto(st, ev) ==
    [ c \in Components |->
        IF c \in SeqToSet(st.outputs)
        THEN Val("uncheck_auto_for_populated_fields", None, ev, None, LastIndex(st.outputs, c))
        ELSE value[c] ]

\* the dataset load of the training tab reports in its status component
AfterDatasetLoad(st, ev) ==
    [ c \in Components |->
        IF c \in SeqToSet(st.outputs)
        THEN Val("load_existing_dataset_for_preprocess", st.inputs[1], ev, None,
                 LastIndex(st.outputs, c))
        ELSE value[c] ]

\* the next step of the running chain: read its inputs, call fn, write its outputs
RunStep ==
    /\ frame = "none"
    /\ queue # << >>
    /\ LET h == Head(queue)
           b == event_graph[h.binding]
       IN  IF h.step > Len(b.steps)
           THEN /\ queue' = Tail(queue)
                /\ UNCHANGED <<value, prev_value, evlog>>
           ELSE LET st == b.steps[h.step]
                    after == IF st.fn = "load_metadata"
                             THEN AfterLoadMetadata(st, h.ev)
                             ELSE IF st.fn = "uncheck_auto_for_populated_fields"
                             THEN AfterUncheckAuto(st, h.ev)
                             ELSE AfterDatasetLoad(st, h.ev)
                IN  /\ value' = after
                    /\ prev_value' = value
                    /\ evlog' = Append(evlog,
                          [ ev |-> h.ev, binding |-> h.binding, step |-> h.step, fn |-> st.fn,
                            read |-> [ i \in 1..Len(st.inputs) |-> value[st.inputs[i]] ] ])
                    /\ queue' = IF h.step = Len(b.steps)
                                THEN Tail(queue)
                                ELSE << [h EXCEPT !.step = h.step + 1] >> \o Tail(queue)
    /\ UNCHANGED <<nevents, setup_vars, Args>>

(***************************************************************************)
(* Specification.                                                          *)
(***************************************************************************)
HandlerIds == {"dit_handler", "llm_handler", "dataset_handler"}

\* at most one key is missing from the component maps
MissingChoices == {{}} \cup { {k} : k \in Components }

Init ==
    /\ \E s \in HandlerStates : handlers = [ h \in HandlerIds |-> s ]
    /\ \E missing \in MissingChoices :
         /\ generation_section = GenerationKeys \ missing
         /\ results_section = ResultsKeys \ missing
         /\ training_section = TrainingKeys \ missing
    /\ frame = "none"
    /\ pc = 0
    /\ ret = [ f \in {"setup_event_handlers", "setup_training_event_handlers"} |-> "not_called" ]
    /\ raised_at = None
    /\ wiring_context = NoContext
    /\ auto_checkbox_inputs = Unbound
    /\ auto_checkbox_outputs = Unbound
    /\ mode_ui_outputs = Unbound
    /\ training_context = NoContext
    /\ calls = << >>
    /\ event_graph = << >>
    /\ value = [ c \in Components |-> Val("initial", None, 0, None, 0) ]
    /\ prev_value = value
    /\ queue = << >>
    /\ evlog = << >>
    /\ nevents = 0

Next ==
    \/ Call_setup_event_handlers
    \/ Stmt_GenerationWiringContext
    \/ Stmt_register_generation_service_handlers
    \/ Stmt_build_mode_ui_outputs
    \/ Stmt_register_generation_metadata_handlers
    \/ Stmt_register_generation_mode_handlers
    \/ Stmt_load_file_upload
    \/ Stmt_register_results_save_button_handlers
    \/ Stmt_register_results_aux_handlers
    \/ Stmt_register_generation_run_handlers
    \/ Stmt_register_generation_batch_navigation_handlers
    \/ Stmt_register_results_restore_and_lrc_handlers
    \/ Call_setup_training_event_handlers
    \/ Stmt_TrainingWiringContext
    \/ Stmt_register_training_dataset_load_handler
    \/ Stmt_register_training_dataset_builder_handlers
    \/ Stmt_register_training_preprocess_handler
    \/ Stmt_register_training_run_handlers
    \/ \E f \in Files : Upload(f)
    \/ \E btn \in {"load_json_btn", "load_existing_dataset_btn"} : Click(btn)
    \/ RunStep

Spec == Init /\ [][Next]_vars

(***************************************************************************)
(* Properties.                                                             *)
(***************************************************************************)
Exceptions == {KeyError, UnboundLocalError}

\* the call of f has ended without an exception
Completed(f) == ret[f] \notin ({"not_called", "running"} \cup Exceptions)

\* positions of the completed invocations of helper fn
CallsOf(fn) == { i \in 1..Len(calls) : calls[i].fn = fn }

\* positions of the bindings that a helper, or the inline statement, registered
BindingsOf(owner) == { i \in 1..Len(event_graph) : event_graph[i].owner = owner }

UploadBindings == { i \in 1..Len(event_graph) :
                      event_graph[i].trigger = "load_file" /\ event_graph[i].event = "upload" }

NineCalls == { "register_generation_service_handlers", "build_mode_ui_outputs",
               "register_generation_metadata_handlers", "register_generation_mode_handlers",
               "register_results_save_button_handlers", "register_results_aux_handlers",
               "register_generation_run_handlers",
               "register_generation_batch_navigation_handlers",
               "register_results_restore_and_lrc_handlers" }

\* C1: when setup_event_handlers completes without an exception, each of the
\* nine registration calls has executed exactly once, the load_file upload
\* binding exists exactly once, and no helper's bindings are registered twice.
C1_EachRegistrationOnce ==
    Completed("setup_event_handlers") =>
        /\ \A fn \in NineCalls : Cardinality(CallsOf(fn)) = 1
        /\ Cardinality(CallsOf("load_file.upload")) = 1
        /\ Cardinality(UploadBindings) = 1
        /\ Cardinality(BindingsOf("setup_event_handlers")) = 1
        /\ \A fn \in NineCalls \ {"build_mode_ui_outputs"} : Cardinality(BindingsOf(fn)) = 1

C1_Witness ==
    /\ Completed("setup_event_handlers")
    /\ Cardinality(UploadBindings) = 1
    /\ Len(SelectSeq(calls, LAMBDA c : c.fn \in NineCalls)) = 9

AutoListSites == { "register_generation_metadata_handlers",
                   "register_generation_mode_handlers", "load_file.upload" }

\* the lists a call site received are the two lists an earlier service call returned
ReceivedServiceLists(i) ==
    \E j \in CallsOf("register_generation_service_handlers") :
        /\ j < i
        /\ calls[i].auto_checkbox_inputs = calls[j].result[1]
        /\ calls[i].auto_checkbox_outputs = calls[j].result[2]

DeclaredOutputFields ==
    << "task_type", "captions", "lyrics", "vocal_language", "bpm", "key_scale",
       "time_signature", "audio_duration", "batch_size_input", "inference_steps",
       "guidance_scale", "seed", "random_seed_checkbox", "use_adg",
       "cfg_interval_start", "cfg_interval_end", "shift", "infer_method",
       "custom_timesteps", "audio_format", "lm_temperature", "lm_cfg_scale",
       "lm_top_k", "lm_top_p", "lm_negative_prompt", "use_cot_metas",
       "use_cot_caption", "use_cot_language", "audio_cover_strength",
       "cover_noise_strength", "think_checkbox", "text2music_audio_code_string",
       "repainting_start", "repainting_end", "track_name",
       "complete_track_classes", "instrumental_checkbox",
       "is_format_caption_state" >>

\* the load step of an upload chain has just run and its .then step is pending
JustLoaded ==
    /\ evlog # << >>
    /\ evlog[Len(evlog)].fn = "load_metadata"
    /\ queue # << >>
    /\ Head(queue).binding = evlog[Len(evlog)].binding
    /\ Head(queue).step = evlog[Len(evlog)].step + 1

\* C3: the load binding takes the single input load_file, calls the load
\* function with the uploaded file and the llm_handler given to setup, and
\* writes result i to declared output i: task_type ... instrumental_checkbox,
\* then is_format_caption_state, no field twice, no other field touched.
C3_LoadMapsOntoDeclaredOutputs ==
    /\ \A b \in UploadBindings : Completed("setup_event_handlers") =>
        /\ event_graph[b].steps[1].fn = "load_metadata"
        /\ event_graph[b].steps[1].inputs = << "load_file" >>
        /\ event_graph[b].steps[1].closure = "llm_handler"
        /\ event_graph[b].steps[1].outputs = DeclaredOutputFields
        /\ IsInjective(event_graph[b].steps[1].outputs)
    /\ JustLoaded =>
        LET e == evlog[Len(evlog)] IN
        /\ Len(e.read) = 1
        /\ e.read[1] = prev_value["load_file"]
        /\ e.read[1].src = "upload"
        /\ e.read[1].ev = e.ev
        /\ \A c \in Components :
              value[c] = IF \E i \in 1..Len(DeclaredOutputFields) : DeclaredOutputFields[i] = c
                         THEN Val("load_metadata", e.read[1].file, e.ev, "llm_handler",
                                  CHOOSE i \in 1..Len(DeclaredOutputFields) :
                                      DeclaredOutputFields[i] = c)
                         ELSE prev_value[c]

C3_Witness ==
    /\ JustLoaded
    /\ value["instrumental_checkbox"].src = "load_metadata"
    /\ value["is_format_caption_state"].idx = Len(DeclaredOutputFields)
    /\ nevents = 2

\* C4: in every upload chain the checkbox recompute step runs directly after
\* the load step of the same event, on fields that load step populated; it
\* never runs first and never without that load step.
C4_RecomputeAfterLoad ==
    \A j \in 1..Len(evlog) : evlog[j].fn = "uncheck_auto_for_populated_fields" =>
        /\ j > 1
        /\ evlog[j - 1].fn = "load_metadata"
        /\ evlog[j - 1].ev = evlog[j].ev
        /\ evlog[j - 1].binding = evlog[j].binding
        /\ evlog[j].read = [ k \in 1..Len(auto_checkbox_inputs) |->
                               Val("load_metadata", evlog[j - 1].read[1].file, evlog[j].ev,
                                   "llm_handler",
                                   CHOOSE i \in 1..Len(DeclaredOutputFields) :
                                       DeclaredOutputFields[i] = auto_checkbox_inputs[k]) ]

C4_Witness ==
    /\ Len(evlog) >= 4
    /\ evlog[Len(evlog)].fn = "uncheck_auto_for_populated_fields"
    /\ evlog[Len(evlog)].ev = 2

\* the binding of one dataset-load button to its own path and status components
LoadBindingFor(btn, path, status) ==
    Binding("register_training_dataset_load_handler", btn, "click",
            << Step("load_existing_dataset_for_preprocess", None, << path >>, << status >>) >>)

DatasetLoadBindings ==
    SelectSeq(event_graph, LAMBDA b : b.owner = "register_training_dataset_load_handler")

\* C5: the two dataset-load registrations leave two independent bindings: the
\* first on load_json_btn/path/status, the second on load_existing_dataset_btn/
\* path/status; the second call adds its binding and leaves the first as it was.
C5_TwoIndependentLoadBindings ==
    LET n == Cardinality(CallsOf("register_training_dataset_load_handler")) IN
    /\ Len(DatasetLoadBindings) = n
    /\ n >= 1 => DatasetLoadBindings[1] =
                    LoadBindingFor("load_json_btn", "load_json_path", "load_json_status")
    /\ n >= 2 => DatasetLoadBindings[2] =
                    LoadBindingFor("load_existing_dataset_btn", "load_existing_dataset_path",
                                   "load_existing_status")
    /\ Completed("setup_training_event_handlers") => n = 2
    /\ value["load_json_status"].file \in {None, "load_json_path"}
    /\ value["load_existing_status"].file \in {None, "load_existing_dataset_path"}
    /\ \A j \in 1..Len(evlog) : evlog[j].fn = "load_existing_dataset_for_preprocess" =>
          LET b == event_graph[evlog[j].binding] IN
          /\ b.trigger = "load_json_btn" => value["load_json_status"].file = "load_json_path"
          /\ b.trigger = "load_existing_dataset_btn" =>
                 value["load_existing_status"].file = "load_existing_dataset_path"

C5_Witness ==
    /\ Completed("setup_training_event_handlers")
    /\ Len(DatasetLoadBindings) = 2
    /\ value["load_json_status"].src = "load_existing_dataset_for_preprocess"
    /\ value["load_existing_status"].src = "load_existing_dataset_for_preprocess"

\* keys the inline load_file statement reads, and keys the two dataset-load calls name
InlineRequired == ({"load_file"} \cup SeqToSet(DeclaredOutputFields)) \ ResultsKeys
TrainingRequired == { "load_json_btn", "load_json_path", "load_json_status",
                      "load_existing_dataset_btn", "load_existing_dataset_path",
                      "load_existing_status" }

Finished(f) == ret[f] \notin {"not_called", "running"}

\* every component a registered chain names exists in the component maps
BindingsResolved ==
    \A i \in 1..Len(event_graph) :
        LET b == event_graph[i] IN
        b.event # None =>
            /\ b.trigger \in generation_section \cup training_section
            /\ \A k \in 1..Len(b.steps) :
                  SeqToSet(b.steps[k].inputs) \cup SeqToSet(b.steps[k].outputs)
                      \subseteq generation_section \cup results_section \cup training_section

\* C6: with a required key missing from a component map, the setup call that
\* reads it ends with KeyError during registration; no setup call returns
\* leaving a binding on a component that does not exist.
C6_MissingKeyFailsAtRegistration ==
    /\ ( /\ Finished("setup_event_handlers")
         /\ ~ (InlineRequired \subseteq generation_section /\ ResultsKeys \subseteq results_section) )
       => ret["setup_event_handlers"] = KeyError
    /\ ( /\ Finished("setup_training_event_handlers")
         /\ ~ (TrainingRequired \subseteq training_section) )
       => ret["setup_training_event_handlers"] = KeyError
    /\ BindingsResolved

C6_Witness ==
    /\ ret["setup_event_handlers"] = KeyError
    /\ raised_at = "load_file.upload"
    /\ "lyrics" \notin generation_section

\* C7: both setup functions return None; while one executes, the handler
\* objects, the component maps and the component values stay as they were,
\* only the registrations change.
C7_ReturnNoneHandlersUntouched ==
    /\ [] ( \A f \in DOMAIN ret : Completed(f) => ret[f] = None )
    /\ [][ (frame # "none" \/ frame' # "none")
           => (handlers' = handlers /\ value' = value /\ UNCHANGED Args) ]_vars

C7_Witness ==
    /\ ret["setup_event_handlers"] = None
    /\ ret["setup_training_event_handlers"] = None
    /\ \E h \in HandlerIds : handlers[h] = "uninitialized"

\* a consumer at position i received in field f the list that the producer
\* returned at an earlier position
AfterProducer(i, producer, slot, received) ==
    \E j \in CallsOf(producer) : j < i /\ received = calls[j].result[slot]

\* C8: every consumer of a derived list runs after its producer: the metadata
\* and mode registrations and the load_file chain after the service
\* registration, the mode and results-aux registrations after
\* build_mode_ui_outputs, each receiving the list the producer returned; no
\* statement reads a list before it is assigned.
C8_ConsumersAfterProducers ==
    /\ ret["setup_event_handlers"] # UnboundLocalError
    /\ \A i \in 1..Len(calls) :
        /\ calls[i].fn \in AutoListSites =>
              /\ AfterProducer(i, "register_generation_service_handlers", 1,
                               calls[i].auto_checkbox_inputs)
              /\ AfterProducer(i, "register_generation_service_handlers", 2,
                               calls[i].auto_checkbox_outputs)
        /\ calls[i].fn \in {"register_generation_mode_handlers", "register_results_aux_handlers"} =>
              AfterProducer(i, "build_mode_ui_outputs", 1, calls[i].mode_ui_outputs)
    /\ Completed("setup_event_handlers") =>
        \A fn \in AutoListSites \cup {"register_results_aux_handlers"} : CallsOf(fn) # {}

C8_Witness ==
    /\ Completed("setup_event_handlers")
    /\ CallsOf("register_results_aux_handlers") # {}
    /\ CallsOf("register_generation_mode_handlers") # {}
    /\ Len(auto_checkbox_inputs) = 1

TrainingCalls == SelectSeq(calls, LAMBDA c : c.ctx.kind = "TrainingWiringContext")

ExpectedTrainingCall(fn, btn, path, status) ==
    [ fn |-> fn,
      ctx |-> TrainingWiringContext("demo", "dit_handler", "llm_handler", training_section),
      auto_checkbox_inputs |-> Unbound, auto_checkbox_outputs |-> Unbound,
      mode_ui_outputs |-> Unbound,
      button_key |-> btn, path_key |-> path, status_key |-> status, result |-> NoResult ]

\* C9: a completed setup_training_event_handlers has made exactly five
\* registrations, in the order dataset-load (load_json_*), dataset-builder,
\* dataset-load (load_existing_dataset_*), preprocess, training-run, all with
\* the one TrainingWiringContext built from the arguments, and none receives
\* a value another one produced.
C9_FiveTrainingRegistrationsInOrder ==
    Completed("setup_training_event_handlers") =>
        /\ training_context = TrainingWiringContext("demo", "dit_handler", "llm_handler",
                                                    training_section)
        /\ TrainingCalls =
             << ExpectedTrainingCall("register_training_dataset_load_handler",
                                     "load_json_btn", "load_json_path", "load_json_status"),
                ExpectedTrainingCall("register_training_dataset_builder_handlers",
                                     None, None, None),
                ExpectedTrainingCall("register_training_dataset_load_handler",
                                     "load_existing_dataset_btn", "load_existing_dataset_path",
                                     "load_existing_status"),
                ExpectedTrainingCall("register_training_preprocess_handler", None, None, None),
                ExpectedTrainingCall("register_training_run_handlers", None, None, None) >>

C9_Witness ==
    /\ Completed("setup_training_event_handlers")
    /\ Len(TrainingCalls) = 5
    /\ ret["setup_event_handlers"] = "not_called"

GenerationCallNames ==
    LET gen == SelectSeq(calls, LAMBDA c : c.fn \in NineCalls \cup {"load_file.upload"})
    IN  [ i \in 1..Len(gen) |-> gen[i].fn ]

GenerationBindingOwners ==
    LET gen == SelectSeq(event_graph,
                         LAMBDA b : b.owner \in NineCalls \cup {"setup_event_handlers"})
    IN  [ i \in 1..Len(gen) |-> gen[i].owner ]

====
